---- MODULE Spec2Model ----
(***************************************************************************)
(* Model of the MOHB optimizer (mo_hyperband/optimizers/mohb.py): the      *)
(* budget planner of __init__ / get_next_iteration, the Pareto front of    *)
(* _update_pareto and the scheduling loop of run().                        *)
(*                                                                         *)
(* SHBracketManager, Trial and multi_obj_util live in mo_hyperband.utils,  *)
(* which is not part of the sources at hand; the operators that stand for  *)
(* them (prefixed by a comment "mo_hyperband.utils") follow the design     *)
(* document.                                                               *)
(*                                                                         *)
(* Intermediate values are handed on as operator arguments (operators      *)
(* named ...Of, ...With, ...In) rather than bound by LET, because TLC      *)
(* evaluates an argument once and a LET definition at every use.           *)
(***************************************************************************)
EXTENDS Integers, Sequences, FiniteSets, TLC

VARIABLES
    params,             \* constructor arguments of MOHB.__init__
    max_SH_iter,        \* self.max_SH_iter
    budgets,            \* self.budgets, the budget ladder
    plan,               \* last value returned by get_next_iteration
    args,               \* keyword arguments of run()
    pc,                 \* position of the control thread inside run()
    iteration_counter,  \* self.iteration_counter
    active_brackets,    \* self.active_brackets
    futures,            \* self.futures
    trials,             \* self.trials, the archive
    runtime,            \* self.runtime, the per-trial cost sequence
    history,            \* self.history
    cumulated_costs,    \* self.cumulated_costs
    pareto_trials,      \* self.pareto_trials
    retval,             \* what run() handed back to its caller
    gpu_usage,          \* self.gpu_usage, device id -> jobs in flight
    start,              \* self.start, the clock reading when run() began
    now,                \* the clock of the machine, what time.time() returns
    log                 \* observations of the run used to state properties

vars == <<params, max_SH_iter, budgets, plan, args, pc, iteration_counter,
          active_brackets, futures, trials, runtime, history, cumulated_costs,
          pareto_trials, retval, log, gpu_usage, start, now>>

\* Python's None for the optional integer arguments (all of them are >= 0
\* when given).
None == -1

-----------------------------------------------------------------------------
(* Arithmetic helpers *)

RECURSIVE Pow(_, _)
Pow(b, e) == IF e = 0 THEN 1 ELSE b * Pow(b, e - 1)

Max2(a, b) == IF a >= b THEN a ELSE b
Min2(a, b) == IF a <= b THEN a ELSE b

RECURSIVE SeqMax(_)
SeqMax(s) == IF Len(s) = 1 THEN s[1] ELSE Max2(s[1], SeqMax(Tail(s)))

RECURSIVE SeqSum(_)
SeqSum(s) == IF s = <<>> THEN 0 ELSE s[1] + SeqSum(Tail(s))

\* A budget is a rational num/den (the ladder holds floats unless it is cast).
Rat(n, d) == [num |-> n, den |-> d]
RatLess(a, b) == a.num * b.den < b.num * a.den
RatEq(a, b) == a.num * b.den = b.num * a.den

-----------------------------------------------------------------------------
(* MOHB.__init__, lines 47-62: the budget ladder *)

\* -int(np.log(min_budget / max_budget) / np.log(eta)) + 1: one more than the
\* largest k with min_budget * eta^k <= max_budget (eta = en/ed > 1).
RECURSIVE LogFloor(_, _, _, _, _)
LogFloor(minb, maxb, en, ed, k) ==
    IF minb * Pow(en, k + 1) <= maxb * Pow(ed, k + 1)
    THEN LogFloor(minb, maxb, en, ed, k + 1)
    ELSE k

ComputeMaxSHIter(p) ==
    LogFloor(p.min_budget, p.max_budget, p.eta_num, p.eta_den, 0) + 1

\* budget.astype(np.int64) truncates; astype(np.float64) keeps the value.
AsType(b, integral) == IF integral THEN Rat(b.num \div b.den, 1) ELSE b

\* max_budget * eta ** -linspace(max_SH_iter - 1, 0, max_SH_iter), then the cast
\* chosen by the type of min_budget.
ComputeBudgets(p, m) ==
    [j \in 1..m |->
        AsType(Rat(p.max_budget * Pow(p.eta_den, m - j), Pow(p.eta_num, m - j)),
               p.min_integral)]

-----------------------------------------------------------------------------
(* MOHB.get_next_iteration, lines 131-161 *)

\* np.clip(x, a_min, a_max) = minimum(maximum(x, a_min), a_max)
NpClip(ns, lo, hi) == [j \in 1..Len(ns) |-> Min2(Max2(ns[j], lo), hi)]

\* lines 156-159: the two clipping branches
ClipCounts(p, ns) ==
    IF p.min_clip # None /\ p.max_clip # None
    THEN NpClip(ns, p.min_clip, p.max_clip)
    ELSE IF p.min_clip # None
         THEN NpClip(ns, p.min_clip, SeqMax(ns))
         ELSE ns

\* the counts with the sign of the exponent lost: n0 * eta ** i
RungCountsGrowing(p, n0, s) ==
    [j \in 1..(s + 1) |->
        Max2((n0 * Pow(p.eta_num, j - 1)) \div Pow(p.eta_den, j - 1), 1)]

\* line 155: ns = [max(int(n0 * eta ** -i), 1) for i in range(s + 1)]
RungCounts(p, n0, s) ==
    [j \in 1..(s + 1) |->
        Max2((n0 * Pow(p.eta_den, j - 1)) \div Pow(p.eta_num, j - 1), 1)]

\* line 154: n0 = int(floor(max_SH_iter / (s + 1)) * eta ** s)
FirstCount(p, m, s) == ((m \div (s + 1)) * Pow(p.eta_num, s)) \div Pow(p.eta_den, s)

\* the geometry with the first s + 1 entries of the ladder, budgets[:s + 1]
IterationWithPrefix(p, m, ladder, iteration, s) ==
    [iteration |-> iteration,
     ns |-> ClipCounts(p, RungCounts(p, FirstCount(p, m, s), s)),
     budgets |-> SubSeq(ladder, 1, s + 1)]

IterationWith(p, m, ladder, iteration, s) ==
    [iteration |-> iteration,
     ns |-> ClipCounts(p, RungCounts(p, FirstCount(p, m, s), s)),
     budgets |-> SubSeq(ladder, m - s, m)]

GetNextIteration(p, m, ladder, iteration) ==
    IterationWith(p, m, ladder, iteration, m - 1 - (iteration % m))

-----------------------------------------------------------------------------
(* mo_hyperband.utils.multi_obj_util.pareto_index and MOHB._update_pareto *)

\* a dominates b: no worse in every objective, strictly better in at least one
\* (lower is better).
Dominates(a, b) ==
    /\ \A k \in 1..Len(a) : a[k] <= b[k]
    /\ \E k \in 1..Len(a) : a[k] < b[k]

\* mo_hyperband.utils: the mask of the non-dominated rows of a fitness matrix.
pareto_index(fitness) ==
    [i \in 1..Len(fitness) |->
        ~ \E j \in 1..Len(fitness) : Dominates(fitness[j], fitness[i])]

\* rows of a sequence selected by a boolean mask, in order (numpy indexing)
RECURSIVE MaskSelect(_, _, _)
MaskSelect(s, mask, i) ==
    IF i > Len(s) THEN <<>>
    ELSE IF mask[i]
         THEN <<s[i]>> \o MaskSelect(s, mask, i + 1)
         ELSE MaskSelect(s, mask, i + 1)

\* line 270: fitness = [trial.get_fitness() for trial in self.trials]
FitnessOf(ts) == [i \in 1..Len(ts) |-> ts[i].fitness]

\* the archive returned without the mask being applied
UpdateParetoUnmasked(archive) == archive

\* MOHB._update_pareto, lines 269-274
UpdatePareto(archive) == MaskSelect(archive, pareto_index(FitnessOf(archive)), 1)

-----------------------------------------------------------------------------
(* mo_hyperband.utils.Trial and mo_hyperband.utils.SHBracketManager *)

NoFitness == <<>>
NoBudget == Rat(0, 1)

\* Trial(config): a fresh pending trial
Trial(config) ==
    [config |-> config, status |-> "pending", fitness |-> NoFitness, cost |-> None]

\* SHBracketManager(n_configs, budgets, bracket_id); trials[r] = <<>> stands for
\* "the budget of rung r is not in bracket.trials".
SHBracketManager(n_configs, bs, bracket_id) ==
    [bracket_id |-> bracket_id, n_configs |-> n_configs, budgets |-> bs,
     trials |-> [r \in 1..Len(bs) |-> <<>>]]

\* position of a budget in bracket.budgets (first match), 0 when absent
RungOf(bracket, budget) ==
    IF \E r \in 1..Len(bracket.budgets) : RatEq(bracket.budgets[r], budget)
    THEN CHOOSE r \in 1..Len(bracket.budgets) :
            /\ RatEq(bracket.budgets[r], budget)
            /\ \A q \in 1..(r - 1) : ~RatEq(bracket.budgets[q], budget)
    ELSE 0

\* slots of rung r not yet handed to a worker
PendingSlots(bracket, r) ==
    IF bracket.trials[r] = <<>>
    THEN bracket.n_configs[r]
    ELSE Cardinality({i \in 1..Len(bracket.trials[r]) :
                         bracket.trials[r][i].status = "pending"})

\* every trial of rung r is complete
RungResolved(bracket, r) ==
    /\ bracket.trials[r] # <<>>
    /\ \A i \in 1..Len(bracket.trials[r]) : bracket.trials[r][i].status = "complete"

\* the lowest rung that still has pending slots, 0 when there is none
CandidateRung(bracket) ==
    IF \E r \in 1..Len(bracket.budgets) : PendingSlots(bracket, r) > 0
    THEN CHOOSE r \in 1..Len(bracket.budgets) :
            /\ PendingSlots(bracket, r) > 0
            /\ \A q \in 1..(r - 1) : PendingSlots(bracket, q) = 0
    ELSE 0

\* some rung below rung r has a trial that is not complete
WaitsBelow(bracket, r) == \E q \in 1..(r - 1) : ~RungResolved(bracket, q)

previous_rung_waits(bracket) == WaitsBelow(bracket, CandidateRung(bracket))

is_pending(bracket) ==
    \E r \in 1..Len(bracket.budgets) : PendingSlots(bracket, r) > 0

is_bracket_done(bracket) == RungResolved(bracket, Len(bracket.budgets))

BudgetOfCandidate(bracket, r) ==
    IF r = 0 \/ WaitsBelow(bracket, r) THEN NoBudget ELSE bracket.budgets[r]

get_next_job_budget(bracket) == BudgetOfCandidate(bracket, CandidateRung(bracket))

PromotionsOf(bracket, r) ==
    [lower_budget |-> bracket.budgets[Max2(r - 1, 1)], n_configs |-> bracket.n_configs[r]]

get_lower_budget_promotions(bracket, budget) ==
    PromotionsOf(bracket, RungOf(bracket, budget))

\* indices of the pending trials of a populated rung, in order
RECURSIVE PendingFrom(_, _)
PendingFrom(ts, i) ==
    IF i > Len(ts) THEN <<>>
    ELSE IF ts[i].status = "pending" THEN <<i>> \o PendingFrom(ts, i + 1)
         ELSE PendingFrom(ts, i + 1)

get_pending_trials(bracket, budget) ==
    PendingFrom(bracket.trials[RungOf(bracket, budget)], 1)

\* register_job(budget, trial): the trial (slot idx of the rung) becomes running
register_job(bracket, budget, idx) ==
    [bracket EXCEPT !.trials[RungOf(bracket, budget)][idx].status = "running"]

\* complete_job(budget, run_info): the matching trial becomes complete
complete_job(bracket, budget, run_info) ==
    [bracket EXCEPT !.trials[RungOf(bracket, budget)][run_info.trial] =
        [@ EXCEPT !.status = "complete",
                  !.fitness = run_info.fitness,
                  !.cost = run_info.cost]]

-----------------------------------------------------------------------------
(* Bounds and input domains of the model *)

\* largest number of brackets asked for with run(brackets=...)
MaxBrackets == 2
\* largest cumulated cost asked for with run(total_cost=...)
MaxTotalCost == 3
\* largest limit asked for with run(total_wallclock_cost=...)
MaxWallclock == 2
\* largest bracket id a run may reach (runs that would start a further bracket
\* are not followed beyond that point)
MaxBracketId == MaxBrackets

\* (fitness, cost) pairs an objective function may report: two objectives, one
\* vector dominating the other, and two different costs
Outcomes == {<< <<1, 1>>, 2 >>, << <<2, 2>>, 1 >>}

\* line 600: the clock reading time.time() at the start of run(), seconds
\* since 1970: larger than any limit and than the costs of Outcomes
Epoch == 4
\* the cost reported by an objective that counts in a unit in which its costs
\* exceed clock readings
HugeCost == 10

\* the objective function self.f is constant, or constant with a huge cost, or
\* reports any of Outcomes
ObjectiveOutcomes(p) ==
    IF p.f = "constant" THEN {<< <<1, 1>>, 1 >>}
    ELSE IF p.f = "costly" THEN {<< <<1, 1>>, HugeCost >>}
    ELSE Outcomes

-----------------------------------------------------------------------------
(* Worker pool: MOHB._get_worker_count, is_worker_available, lines 300-319 *)

\* self.n_workers > 1 or isinstance(self.client, Client)
UsesPool(p) == p.n_workers > 1 \/ p.client

GetWorkerCount(p) == IF p.client THEN p.n_workers ELSE 1

IsWorkerAvailable(p, futs) ==
    IF p.n_workers = 1 \/ ~p.client
    THEN TRUE
    ELSE Len(futs) < GetWorkerCount(p)

-----------------------------------------------------------------------------
(* MOHB.sort_indices, lines 107-120, and the rankers of multi_obj_util *)

RECURSIVE Injections(_, _)
Injections(n, S) ==
    IF n = 0 THEN {<<>>}
    ELSE UNION {{<<x>> \o t : t \in Injections(n - 1, S \ {x})} : x \in S}

\* mo_hyperband.utils: rank(costs, n) yields n ordered indices of the candidates,
\* the survivors; which ones depends on the strategy and its random weights.
RankChoices(fitness, n) ==
    IF n <= Len(fitness)
    THEN Injections(n, 1..Len(fitness))
    ELSE [1..n -> 1..Len(fitness)]

KnownAlgorithms == {"EPSNET", "NSGA-II", "random_weights", "parego", "golovin"}

\* the set of rankings sort_indices may return; raised when the tag is unknown
sort_indices(p, fitness, n) ==
    IF p.mo_strategy \in KnownAlgorithms
    THEN [raised |-> FALSE, choices |-> RankChoices(fitness, n)]
    ELSE [raised |-> TRUE, choices |-> {}]

\* most jobs in flight a run is followed to: one more than the pool has workers
\* (a run that would submit a further job is not followed beyond that point)
MaxInFlight(p) == GetWorkerCount(p) + 1

-----------------------------------------------------------------------------
(* MOHB._start_new_bracket, lines 287-298 *)

BracketWith(g, bracket_id) == SHBracketManager(g.ns, g.budgets, bracket_id)

\* a new bracket numbered by its place in the list of active brackets
StartNewBracketByPlace(p, m, ladder, ic, ab) ==
    [iteration_counter |-> ic + 1,
     active_brackets |->
        Append(ab, BracketWith(GetNextIteration(p, m, ladder, Len(ab)), Len(ab)))]

StartNewBracket(p, m, ladder, ic, ab) ==
    [iteration_counter |-> ic + 1,
     active_brackets |->
        Append(ab, BracketWith(GetNextIteration(p, m, ladder, ic + 1), ic + 1))]

-----------------------------------------------------------------------------
(* MOHB._get_next_job, lines 368-389: the bracket and the budget of the job *)

Eligible(bracket) == ~previous_rung_waits(bracket) /\ is_pending(bracket)

\* the selection that goes on to the last eligible bracket of the list (the
\* loop of lines 377-384 without its break)
SelectLastEligible(ab) ==
    IF Len(ab) = 0 \/ \A i \in 1..Len(ab) : is_bracket_done(ab[i])
    THEN 0
    ELSE IF \E i \in 1..Len(ab) : Eligible(ab[i])
         THEN CHOOSE i \in 1..Len(ab) :
                 Eligible(ab[i]) /\ \A j \in (i + 1)..Len(ab) : ~Eligible(ab[j])
         ELSE 0

\* index in active_brackets of the bracket to take the job from, 0 when a new
\* bracket has to be started
SelectBracket(ab) ==
    IF Len(ab) = 0 \/ \A i \in 1..Len(ab) : is_bracket_done(ab[i])
    THEN 0
    ELSE IF \E i \in 1..Len(ab) : Eligible(ab[i])
         THEN CHOOSE i \in 1..Len(ab) :
                 Eligible(ab[i]) /\ \A j \in 1..(i - 1) : ~Eligible(ab[j])
         ELSE 0

\* budget = bracket.get_next_job_budget()
JobBudget(bracket) == get_next_job_budget(bracket)

\* the request for a job of bracket number bi of the list
RequestIn(st, bi) ==
    [iteration_counter |-> st.iteration_counter,
     active_brackets |-> st.active_brackets,
     index |-> bi,
     budget |-> JobBudget(st.active_brackets[bi])]

RequestFrom(sel, p, m, ladder, ic, ab) ==
    IF sel = 0
    THEN RequestIn(StartNewBracket(p, m, ladder, ic, ab), Len(ab) + 1)
    ELSE RequestIn([iteration_counter |-> ic, active_brackets |-> ab], sel)

\* a job selection without the rung gate: the first bracket with an open slot,
\* at the lowest rung that has one
FirstOpen(ab) ==
    CHOOSE i \in 1..Len(ab) : is_pending(ab[i]) /\ \A j \in 1..(i - 1) : ~is_pending(ab[j])

UngatedJobRequest(p, m, ladder, ic, ab) ==
    IF \E i \in 1..Len(ab) : is_pending(ab[i])
    THEN [iteration_counter |-> ic, active_brackets |-> ab, index |-> FirstOpen(ab),
          budget |-> ab[FirstOpen(ab)].budgets[CandidateRung(ab[FirstOpen(ab)])]]
    ELSE RequestFrom(0, p, m, ladder, ic, ab)

\* state after the bracket has been chosen or started, with the budget asked for
JobRequest(p, m, ladder, ic, ab) == RequestFrom(SelectBracket(ab), p, m, ladder, ic, ab)

-----------------------------------------------------------------------------
(* MOHB._acquire_config, lines 321-366 *)

\* the rung has to be filled by a promotion from the rung below
PromotionAt(bracket, budget, r) ==
    r > 0 /\ bracket.trials[r] = <<>> /\ ~RatEq(budget, bracket.budgets[1])

NeedsPromotion(bracket, budget) == PromotionAt(bracket, budget, RungOf(bracket, budget))

\* candidate_trials = bracket.trials[lower_budget]
Candidates(bracket, budget) ==
    bracket.trials[RungOf(bracket, get_lower_budget_promotions(bracket, budget).lower_budget)]

\* fitness of the candidates of the lower rung, as handed to normalize()
CandidateFitness(bracket, budget) == FitnessOf(Candidates(bracket, budget))

\* the rankings the promotion may use ({<<>>} when there is no promotion)
Rankings(p, bracket, budget) ==
    IF NeedsPromotion(bracket, budget)
    THEN sort_indices(p, CandidateFitness(bracket, budget),
                      get_lower_budget_promotions(bracket, budget).n_configs).choices
    ELSE {<<>>}

\* normalize() fails on an empty or unset fitness, sort_indices on an unknown tag
PromotionRaises(p, fit, n) ==
    \/ fit = <<>>
    \/ \E i \in 1..Len(fit) : fit[i] = NoFitness
    \/ sort_indices(p, fit, n).raised

\* an exception leaves _acquire_config before the rung is populated: the
\* assertion on the budget, or the promotion
AcquireRaises(p, bracket, budget) ==
    \/ RungOf(bracket, budget) = 0
    \/ /\ NeedsPromotion(bracket, budget)
       /\ PromotionRaises(p, CandidateFitness(bracket, budget),
                          get_lower_budget_promotions(bracket, budget).n_configs)

\* the ranked candidates added to the candidates instead of replacing them
PromotedAppended(cands, rank) ==
    [j \in 1..(Len(cands) + Len(rank)) |->
        IF j <= Len(cands) THEN Trial(cands[j].config)
        ELSE Trial(cands[rank[j - Len(cands)]].config)]

\* trial records for the ranked candidates that keep the candidates' fitness
PromotedWithFitness(cands, rank) ==
    [j \in 1..Len(rank) |->
        [Trial(cands[rank[j]].config) EXCEPT !.fitness = cands[rank[j]].fitness]]

\* lines 350-358: new Trial instances for the ranked candidates
Promoted(cands, rank) == [j \in 1..Len(rank) |-> Trial(cands[rank[j]].config)]

PopulateAt(bracket, budget, rank, r) ==
    IF bracket.trials[r] # <<>> THEN bracket
    ELSE IF RatEq(budget, bracket.budgets[1])
         THEN [bracket EXCEPT !.trials[r] =
                  [i \in 1..bracket.n_configs[1] |-> Trial(i)]]
         ELSE [bracket EXCEPT !.trials[r] = Promoted(Candidates(bracket, budget), rank)]

\* candidate trials written to bracket.trials[budget] when the rung is new
Populate(bracket, budget, rank) ==
    PopulateAt(bracket, budget, rank, RungOf(bracket, budget))

\* the first trial of the rung in place of the first pending one
FirstOfRung(b1, pending) ==
    [bracket |-> b1, raised |-> pending = <<>>, trial |-> 1]

FirstPending(b1, pending) ==
    [bracket |-> b1,
     raised |-> pending = <<>>,
     trial |-> IF pending = <<>> THEN 0 ELSE pending[1]]

AcquiredIn(b1, budget) == FirstPending(b1, get_pending_trials(b1, budget))

\* the bracket after _acquire_config and the trial it returns (pending_trials[0])
AcquireConfig(bracket, budget, rank) == AcquiredIn(Populate(bracket, budget, rank), budget)

-----------------------------------------------------------------------------
(* MOHB.submit_job, lines 416-440 *)

\* the future appended for a job: a pool future still running, or (synchronous
\* case) the run_info computed inline by _f_objective
\* the job handed to a pool in every case, self.client.submit without the test
\* of line 421
FuturePooled(p, bracket, budget, idx, outcome) ==
    [bracket_id |-> bracket.bracket_id,
     budget |-> budget,
     trial |-> idx,
     config |-> bracket.trials[RungOf(bracket, budget)][idx].config,
     done |-> FALSE,
     fitness |-> NoFitness,
     cost |-> None]

Future(p, bracket, budget, idx, outcome) ==
    [bracket_id |-> bracket.bracket_id,
     budget |-> budget,
     trial |-> idx,
     config |-> bracket.trials[RungOf(bracket, budget)][idx].config,
     done |-> ~UsesPool(p),
     fitness |-> IF UsesPool(p) THEN NoFitness ELSE outcome[1],
     cost |-> IF UsesPool(p) THEN None ELSE outcome[2]]

\* position of the first bracket of the list that carries the id, 0 when absent
IndexOfBracket(ab, bracket_id) ==
    IF \E i \in 1..Len(ab) : ab[i].bracket_id = bracket_id
    THEN CHOOSE i \in 1..Len(ab) :
            /\ ab[i].bracket_id = bracket_id
            /\ \A j \in 1..(i - 1) : ab[j].bracket_id # bracket_id
    ELSE 0

RegisterAt(ab, i, budget, idx) ==
    IF i = 0 THEN ab ELSE [ab EXCEPT ![i] = register_job(ab[i], budget, idx)]

\* lines 433-440: register_job on the first active bracket that carries the id
RegisterInBrackets(ab, bracket_id, budget, idx) ==
    RegisterAt(ab, IndexOfBracket(ab, bracket_id), budget, idx)

\* line 104: self.gpu_usage = None; it is not read while single_node_with_gpus
\* is off
NoUsage == <<>>

\* distribute_gpus, lines 243-253: a counter of 0 for every visible device, no
\* counter at all when CUDA_VISIBLE_DEVICES is not set
DistributeGpus(a) ==
    IF a.single_node_with_gpus
    THEN [device_id \in a.cuda_visible_devices |-> 0]
    ELSE NoUsage

\* line 422: the job gets a device
AssignsGpu(p, a) == UsesPool(p) /\ a.single_node_with_gpus

\* the candidates when the load is not looked at
LowLoadCandidatesAny(usage) == DOMAIN usage

\* lines 401-404: the devices np.random.choice picks from
LowLoadCandidates(usage) ==
    {k \in DOMAIN usage : \A j \in DOMAIN usage : usage[k] <= usage[j]}

\* line 411: self.gpu_usage[device_id] += 1
GetGpuIdWithLowLoad(usage, device_id) == [usage EXCEPT ![device_id] = @ + 1]

\* lines 213-217: the run_info of a job that carries "gpu_devices" names the
\* first device of the list, the one chosen at line 405
WithDevice(fut, device_id) == fut @@ [device_id |-> device_id]

\* lines 422-424: the future appended last belongs to the job with the device
WithGpuDevices(futs, device_id) ==
    [futs EXCEPT ![Len(futs)] = WithDevice(@, device_id)]

\* submit_job without the call of register_job
SubmitJobUnregistered(p, futs, ab, bi, budget, idx, outcome) ==
    [futures |-> Append(futs, Future(p, ab[bi], budget, idx, outcome)),
     active_brackets |-> ab]

SubmitJob(p, futs, ab, bi, budget, idx, outcome) ==
    [futures |-> Append(futs, Future(p, ab[bi], budget, idx, outcome)),
     active_brackets |-> RegisterInBrackets(ab, ab[bi].bracket_id, budget, idx)]

-----------------------------------------------------------------------------
(* MOHB._fetch_results_from_workers, lines 442-487 *)

\* positions of the futures that are collected by this call
DoneList(futs) == {i \in 1..Len(futs) : futs[i].done}

\* line 487: the futures left after the processed ones are deleted
RECURSIVE DropDone(_, _)
DropDone(futs, i) ==
    IF i > Len(futs) THEN <<>>
    ELSE IF futs[i].done THEN DropDone(futs, i + 1)
         ELSE <<futs[i]>> \o DropDone(futs, i + 1)

\* lines 455-460: every collected pool result that names a device gives it back
RECURSIVE ReleaseGpus(_, _, _, _)
ReleaseGpus(p, usage, futs, i) ==
    IF i > Len(futs) THEN usage
    ELSE IF UsesPool(p) /\ futs[i].done /\ "device_id" \in DOMAIN futs[i]
         THEN ReleaseGpus(p, [usage EXCEPT ![futs[i].device_id] = @ - 1], futs, i + 1)
         ELSE ReleaseGpus(p, usage, futs, i + 1)

TrialAt(ab, i, run_info) ==
    IF i = 0
    THEN [config |-> run_info.config, status |-> "running",
          fitness |-> NoFitness, cost |-> None]
    ELSE ab[i].trials[RungOf(ab[i], run_info.budget)][run_info.trial]

\* line 483: the trial object run_info['trial'] as the archive sees it
ArchivedTrial(ab, run_info) ==
    TrialAt(ab, IndexOfBracket(ab, run_info.bracket_id), run_info)

\* lines 476-480: complete_job on the active brackets that carry the id
CompleteInBrackets(ab, run_info) ==
    [i \in 1..Len(ab) |->
        IF ab[i].bracket_id = run_info.bracket_id
        THEN complete_job(ab[i], run_info.budget, run_info)
        ELSE ab[i]]

\* book-keeping that records the running total in the cost sequence
CollectedCumulative(st, ab1, run_info) ==
    [active_brackets |-> ab1,
     cumulated_costs |-> st.cumulated_costs + run_info.cost,
     trials |-> Append(st.trials, ArchivedTrial(ab1, run_info)),
     runtime |-> Append(st.runtime, st.cumulated_costs + run_info.cost),
     history |-> Append(st.history,
                    [config |-> run_info.config, fitness |-> run_info.fitness,
                     cost |-> run_info.cost, budget |-> run_info.budget])]

Collected(st, ab1, run_info) ==
    [active_brackets |-> ab1,
     cumulated_costs |-> st.cumulated_costs + run_info.cost,
     trials |-> Append(st.trials, ArchivedTrial(ab1, run_info)),
     runtime |-> Append(st.runtime, run_info.cost),
     history |-> Append(st.history,
                    [config |-> run_info.config, fitness |-> run_info.fitness,
                     cost |-> run_info.cost, budget |-> run_info.budget])]

\* one pass of the loop body of lines 454-485
ProcessResult(st, run_info) ==
    Collected(st, CompleteInBrackets(st.active_brackets, run_info), run_info)

\* (the state after one result is bound as a value before the next result is
\* processed, so that it is computed once)
RECURSIVE ProcessAll(_, _, _)
ProcessAll(st, futs, i) ==
    IF i > Len(futs) THEN st
    ELSE IF futs[i].done
         THEN CHOOSE r \in {ProcessAll(nx, futs, i + 1) :
                               nx \in {ProcessResult(st, futs[i])}} : TRUE
         ELSE ProcessAll(st, futs, i + 1)

WithFutures(st, futs) ==
    [active_brackets |-> st.active_brackets,
     cumulated_costs |-> st.cumulated_costs,
     trials |-> st.trials,
     runtime |-> st.runtime,
     history |-> st.history,
     futures |-> futs]

FetchResultsFromWorkers(ab, futs, arch, rt, hist, cum) ==
    WithFutures(ProcessAll([active_brackets |-> ab, cumulated_costs |-> cum,
                            trials |-> arch, runtime |-> rt, history |-> hist],
                           futs, 1),
                DropDone(futs, 1))

-----------------------------------------------------------------------------
(* MOHB.clean_inactive_brackets, lines 255-263 *)

\* the test of line 261 without the complement
KeepsDone(p, bracket) == is_bracket_done(bracket)

\* "~bracket.is_bracket_done()": the complement of a numpy bool is its negation,
\* the complement of a Python bool is -1 or -2, both truthy
Keeps(p, bracket) == IF p.np_bool THEN ~is_bracket_done(bracket) ELSE TRUE

RECURSIVE FilterKept(_, _, _)
FilterKept(p, ab, i) ==
    IF i > Len(ab) THEN <<>>
    ELSE IF Keeps(p, ab[i])
         THEN <<ab[i]>> \o FilterKept(p, ab, i + 1)
         ELSE FilterKept(p, ab, i + 1)

\* a clean-up that keeps only the brackets with a job left to hand out
CleanWaitingBrackets(p, ab) == SelectSeq(ab, is_pending)

CleanInactiveBrackets(p, ab) == IF Len(ab) = 0 THEN ab ELSE FilterKept(p, ab, 1)

-----------------------------------------------------------------------------
(* MOHB._is_run_budget_exhausted, lines 489-522 *)

\* self.traj is set by reset() only, not by __init__ (lines 76-83, 122-129)
HasTraj == FALSE

\* lines 516-520: the time elapsed since the start, or the last reported cost
\* minus the clock reading of the start, reaches the limit
WallclockExhausted(a, rt, t0, t) ==
    /\ a.total_wallclock_cost # None
    /\ \/ t - t0 >= a.total_wallclock_cost
       \/ Len(rt) > 0 /\ rt[Len(rt)] - t0 >= a.total_wallclock_cost

\* the bracket criterion without the look at the unfinished brackets
ExhaustedByCounter(a, ic, ab, cum, rt, t0, t) ==
    IF a.fevals = None /\ a.brackets = None /\ a.total_cost = None
       /\ a.total_wallclock_cost = None
    THEN "ValueError"
    ELSE IF a.fevals # None /\ ~HasTraj
    THEN "AttributeError"
    ELSE IF a.brackets # None /\ ic >= a.brackets
    THEN "True"
    ELSE IF a.total_cost # None /\ cum >= a.total_cost
    THEN "True"
    ELSE IF WallclockExhausted(a, rt, t0, t)
    THEN "True"
    ELSE "False"

\* the check without the test for a missing criterion
ExhaustedUnvalidated(a, ic, ab, cum, rt, t0, t) ==
    IF a.fevals # None /\ ~HasTraj
    THEN "AttributeError"
    ELSE IF a.brackets # None /\ ic >= a.brackets
    THEN IF \E i \in 1..Len(ab) :
                ab[i].bracket_id < ic /\ ~is_bracket_done(ab[i])
         THEN "False"
         ELSE "True"
    ELSE IF a.total_cost # None /\ cum >= a.total_cost
    THEN "True"
    ELSE IF WallclockExhausted(a, rt, t0, t)
    THEN "True"
    ELSE "False"

IsRunBudgetExhausted(a, ic, ab, cum, rt, t0, t) ==
    IF a.fevals = None /\ a.brackets = None /\ a.total_cost = None
       /\ a.total_wallclock_cost = None
    THEN "ValueError"
    ELSE IF a.fevals # None /\ ~HasTraj
    THEN "AttributeError"
    ELSE IF a.brackets # None /\ ic >= a.brackets
    THEN IF \E i \in 1..Len(ab) :
                ab[i].bracket_id < ic /\ ~is_bracket_done(ab[i])
         THEN "False"
         ELSE "True"
    ELSE IF a.total_cost # None /\ cum >= a.total_cost
    THEN "True"
    ELSE IF WallclockExhausted(a, rt, t0, t)
    THEN "True"
    ELSE "False"

-----------------------------------------------------------------------------
(* MOHB.run, lines 570-677 *)

ctor == <<params, max_SH_iter, budgets, plan>>

NoPlan == [iteration |-> None, ns |-> <<>>, budgets |-> <<>>]
NoRequest == [bracket_id |-> None, rung |-> 0]
NotReturned == [kind |-> "running"]
\* nothing observed yet; stopped is the number of jobs submitted when the loop
\* was left
NoLog == [requested |-> NoRequest, submitted |-> {}, n_submitted |-> 0,
          retired |-> {}, stopped |-> None]

\* line 677: return np.array(self.runtime), np.array(self.history, dtype=object)
RunReturnValue(costs, hist) == [kind |-> "tuple", costs |-> costs, history |-> hist]

\* line 570: @logger.catch swallows an exception of run(), the caller gets None
Caught == [kind |-> "None"]

Exhausted ==
    IsRunBudgetExhausted(args, iteration_counter, active_brackets, cumulated_costs,
                         runtime, start, now)

Req == JobRequest(params, max_SH_iter, budgets, iteration_counter, active_brackets)

\* the bracket and the rung a job request is about
Requested(req) ==
    [bracket_id |-> req.active_brackets[req.index].bracket_id,
     rung |-> RungOf(req.active_brackets[req.index], req.budget)]

\* the test of line 613 with > in place of >=
FromExtraBracketLate(a, bracket_id) == a.brackets # None /\ bracket_id > a.brackets

\* lines 613: the job comes from the extra bracket
FromExtraBracket(a, bracket_id) == a.brackets # None /\ bracket_id >= a.brackets

\* lines 611-612: the loop has not ended, a worker is free, a job is asked for
AsksForJob ==
    /\ pc = "loop"
    /\ Exhausted = "False"
    /\ IsWorkerAvailable(params, futures)

\* lines 608-610: the termination check raises
RaiseAtCheck ==
    /\ pc = "loop"
    /\ Exhausted \in {"ValueError", "AttributeError"}
    /\ pc' = "error"
    /\ retval' = Caught
    /\ UNCHANGED <<ctor, args, start, now, gpu_usage, iteration_counter, active_brackets, futures, trials,
                   runtime, history, cumulated_costs, pareto_trials, log>>

\* lines 609-610: the termination check fires, the loop is left
Stop ==
    /\ pc = "loop"
    /\ Exhausted = "True"
    /\ pc' = "drain"
    /\ log' = [log EXCEPT !.stopped = log.n_submitted]
    /\ UNCHANGED <<ctor, args, start, now, gpu_usage, iteration_counter, active_brackets, futures, trials,
                   runtime, history, cumulated_costs, pareto_trials, retval>>

\* line 611: no worker is free, the tick goes on to collect results
NoWorker ==
    /\ pc = "loop"
    /\ Exhausted = "False"
    /\ ~IsWorkerAvailable(params, futures)
    /\ pc' = "fetch"
    /\ UNCHANGED <<ctor, args, start, now, gpu_usage, iteration_counter, active_brackets, futures, trials,
                   runtime, history, cumulated_costs, pareto_trials, retval, log>>

\* line 612: _get_next_job raises (inside _acquire_config)
JobFails ==
    /\ AsksForJob
    /\ \E req \in {Req} :
       \E rb \in {req.active_brackets[req.index]} :
          /\ req.iteration_counter <= MaxBracketId
          /\ \/ AcquireRaises(params, rb, req.budget)
             \/ \A rank \in Rankings(params, rb, req.budget) :
                   AcquireConfig(rb, req.budget, rank).raised
          /\ iteration_counter' = req.iteration_counter
          /\ active_brackets' = req.active_brackets
          /\ log' = [log EXCEPT !.requested = Requested(req)]
    /\ pc' = "error"
    /\ retval' = Caught
    /\ UNCHANGED <<ctor, args, start, now, gpu_usage, futures, trials, runtime, history, cumulated_costs,
                   pareto_trials>>

\* a discarded job that sends the loop back to its head without collecting
\* results
DiscardUnpolled ==
    /\ AsksForJob
    /\ \E req \in {Req} :
       \E rb \in {req.active_brackets[req.index]} :
          /\ req.iteration_counter <= MaxBracketId
          /\ ~AcquireRaises(params, rb, req.budget)
          /\ FromExtraBracket(args, rb.bracket_id)
          /\ \E rank \in Rankings(params, rb, req.budget) :
             \E acq \in {AcquireConfig(rb, req.budget, rank)} :
                /\ ~acq.raised
                /\ active_brackets' =
                      [req.active_brackets EXCEPT ![req.index] = acq.bracket]
          /\ iteration_counter' = req.iteration_counter
          /\ log' = [log EXCEPT !.requested = Requested(req)]
    /\ pc' = "loop"
    /\ UNCHANGED <<ctor, args, start, now, gpu_usage, futures, trials, runtime, history, cumulated_costs,
                   pareto_trials, retval>>

\* lines 613-621: the job comes from the extra bracket and is not submitted
Discard ==
    /\ AsksForJob
    /\ \E req \in {Req} :
       \E rb \in {req.active_brackets[req.index]} :
          /\ req.iteration_counter <= MaxBracketId
          /\ ~AcquireRaises(params, rb, req.budget)
          /\ FromExtraBracket(args, rb.bracket_id)
          /\ \E rank \in Rankings(params, rb, req.budget) :
             \E acq \in {AcquireConfig(rb, req.budget, rank)} :
                /\ ~acq.raised
                /\ active_brackets' =
                      [req.active_brackets EXCEPT ![req.index] = acq.bracket]
          /\ iteration_counter' = req.iteration_counter
          /\ log' = [log EXCEPT !.requested = Requested(req)]
    /\ pc' = "fetch"
    /\ UNCHANGED <<ctor, args, start, now, gpu_usage, futures, trials, runtime, history, cumulated_costs,
                   pareto_trials, retval>>

\* lines 422-424, 405: no device is visible, np.random.choice raises on the
\* empty candidate list after the trial was acquired
GpuFails ==
    /\ AsksForJob
    /\ AssignsGpu(params, args)
    /\ LowLoadCandidates(gpu_usage) = {}
    /\ \E req \in {Req} :
       \E rb \in {req.active_brackets[req.index]} :
          /\ req.iteration_counter <= MaxBracketId
          /\ ~AcquireRaises(params, rb, req.budget)
          /\ ~FromExtraBracket(args, rb.bracket_id)
          /\ \E rank \in Rankings(params, rb, req.budget) :
             \E acq \in {AcquireConfig(rb, req.budget, rank)} :
                /\ ~acq.raised
                /\ active_brackets' =
                      [req.active_brackets EXCEPT ![req.index] = acq.bracket]
          /\ iteration_counter' = req.iteration_counter
          /\ log' = [log EXCEPT !.requested = Requested(req)]
    /\ pc' = "error"
    /\ retval' = Caught
    /\ UNCHANGED <<ctor, args, start, now, gpu_usage, futures, trials, runtime, history,
                   cumulated_costs, pareto_trials>>

\* lines 622-641: the job is submitted
Submit ==
    /\ AsksForJob
    /\ Len(futures) < MaxInFlight(params)
    /\ AssignsGpu(params, args) => LowLoadCandidates(gpu_usage) # {}
    /\ \E req \in {Req} :
       \E rb \in {req.active_brackets[req.index]} :
          /\ req.iteration_counter <= MaxBracketId
          /\ ~AcquireRaises(params, rb, req.budget)
          /\ ~FromExtraBracket(args, rb.bracket_id)
          /\ \E rank \in Rankings(params, rb, req.budget) :
             \E outcome \in IF UsesPool(params) THEN {<<NoFitness, None>>}
                                                ELSE ObjectiveOutcomes(params) :
             \E acq \in {AcquireConfig(rb, req.budget, rank)} :
                /\ ~acq.raised
                /\ \E sub \in {SubmitJob(params, futures,
                                  [req.active_brackets EXCEPT ![req.index] = acq.bracket],
                                  req.index, req.budget, acq.trial, outcome)} :
                      /\ active_brackets' = sub.active_brackets
                      /\ IF AssignsGpu(params, args)
                         THEN \E device_id \in LowLoadCandidates(gpu_usage) :
                                 /\ gpu_usage' = GetGpuIdWithLowLoad(gpu_usage, device_id)
                                 /\ futures' = WithGpuDevices(sub.futures, device_id)
                         ELSE /\ futures' = sub.futures
                              /\ UNCHANGED gpu_usage
                /\ log' = [log EXCEPT
                      !.requested = Requested(req),
                      !.submitted = @ \cup {<<rb.bracket_id, Requested(req).rung,
                                              acq.trial>>},
                      !.n_submitted = @ + 1]
          /\ iteration_counter' = req.iteration_counter
    /\ pareto_trials' = IF args.verbose THEN UpdatePareto(trials) ELSE pareto_trials
    /\ pc' = "fetch"
    /\ UNCHANGED <<ctor, args, now, start, trials, runtime, history, cumulated_costs, retval>>

\* the brackets clean_inactive_brackets drops from a list
Dropped(p, ab) == {ab[i] : i \in {j \in 1..Len(ab) : ~Keeps(p, ab[j])}}

\* lines 642-647: collect, save the incumbent, retire the brackets that are done
Fetch ==
    /\ pc = "fetch"
    /\ \E r \in {FetchResultsFromWorkers(active_brackets, futures, trials, runtime,
                                         history, cumulated_costs)} :
          /\ futures' = r.futures
          /\ gpu_usage' = ReleaseGpus(params, gpu_usage, futures, 1)
          /\ trials' = r.trials
          /\ runtime' = r.runtime
          /\ history' = r.history
          /\ cumulated_costs' = r.cumulated_costs
          /\ pareto_trials' = IF args.save_intermediate
                              THEN UpdatePareto(r.trials) ELSE pareto_trials
          /\ active_brackets' = CleanInactiveBrackets(params, r.active_brackets)
          /\ log' = [log EXCEPT !.retired = @ \cup Dropped(params, r.active_brackets)]
    /\ pc' = "loop"
    /\ UNCHANGED <<ctor, args, now, start, iteration_counter, retval>>

\* lines 654-660: one round of the drain loop
Drain ==
    /\ pc = "drain"
    /\ futures # <<>>
    /\ \E r \in {FetchResultsFromWorkers(active_brackets, futures, trials, runtime,
                                         history, cumulated_costs)} :
          /\ futures' = r.futures
          /\ gpu_usage' = ReleaseGpus(params, gpu_usage, futures, 1)
          /\ trials' = r.trials
          /\ runtime' = r.runtime
          /\ history' = r.history
          /\ cumulated_costs' = r.cumulated_costs
          /\ active_brackets' = r.active_brackets
          /\ pareto_trials' = IF args.save_intermediate
                              THEN UpdatePareto(r.trials) ELSE pareto_trials
    /\ UNCHANGED <<ctor, args, now, start, pc, iteration_counter, retval, log>>

\* lines 662-677: nothing is in flight any more, the incumbent is saved and
\* run() returns
Return ==
    /\ pc = "drain"
    /\ futures = <<>>
    /\ ~args.verbose
    /\ pareto_trials' = UpdatePareto(trials)
    /\ retval' = RunReturnValue(runtime, history)
    /\ pc' = "done"
    /\ UNCHANGED <<ctor, args, start, now, gpu_usage, iteration_counter, active_brackets, futures, trials,
                   runtime, history, cumulated_costs, log>>

\* lines 662-668: with verbose the closing message reads len(self.traj), an
\* attribute __init__ does not set
RaiseAtEnd ==
    /\ pc = "drain"
    /\ futures = <<>>
    /\ args.verbose
    /\ ~HasTraj
    /\ pareto_trials' = UpdatePareto(trials)
    /\ retval' = Caught
    /\ pc' = "error"
    /\ UNCHANGED <<ctor, args, start, now, gpu_usage, iteration_counter, active_brackets, futures, trials,
                   runtime, history, cumulated_costs, log>>

\* a worker of the pool finishes the job of future i
WorkerFinish(i) ==
    /\ pc \in {"loop", "fetch", "drain"}
    /\ UsesPool(params)
    /\ i \in 1..Len(futures)
    /\ ~futures[i].done
    /\ \E outcome \in ObjectiveOutcomes(params) :
          futures' = [futures EXCEPT ![i] =
                         [@ EXCEPT !.done = TRUE, !.fitness = outcome[1],
                                   !.cost = outcome[2]]]
    /\ UNCHANGED <<ctor, args, start, now, gpu_usage, pc, iteration_counter, active_brackets, trials, runtime,
                   history, cumulated_costs, pareto_trials, retval, log>>

\* time passes; the clock is followed while a limit on the wall-clock time can
\* still be reached
Tick ==
    /\ pc \in {"loop", "fetch", "drain"}
    /\ args.total_wallclock_cost # None
    /\ now - start < args.total_wallclock_cost
    /\ now' = now + 1
    /\ UNCHANGED <<ctor, args, start, gpu_usage, pc, iteration_counter, active_brackets,
                   futures, trials, runtime, history, cumulated_costs, pareto_trials,
                   retval, log>>

-----------------------------------------------------------------------------
(* The runs that are explored *)

\* (max_budget, eta, min_clip, max_clip) with min_budget = 1: the brackets
\* have the rung counts <<2, 1>>, <<2>> without clipping, <<2, 2>>, <<2>> with a
\* lower clip only, and <<3, 1>>, <<2>> clipped to <<2, 1>>, <<2>>
Geometries == {<<2, 2, None, None>>, <<2, 2, 2, None>>, <<3, 3, 1, 2>>}

\* (n_workers, client given) as left by __init__, lines 86-98
Pools == {<<1, FALSE>>, <<1, TRUE>>, <<2, TRUE>>}

RunParams ==
    {[min_budget |-> 1, max_budget |-> g[1], eta_num |-> g[2], eta_den |-> 1,
      min_integral |-> TRUE, min_clip |-> g[3], max_clip |-> g[4],
      n_workers |-> w[1], client |-> w[2], mo_strategy |-> st, f |-> f,
      np_bool |-> nb] :
        g \in Geometries, w \in Pools, st \in {"NSGA-II", "unknown"},
        f \in {"constant", "costly", "varying"}, nb \in BOOLEAN}

NoArgs == [fevals |-> None, brackets |-> None, total_cost |-> None,
           total_wallclock_cost |-> None, verbose |-> FALSE,
           save_intermediate |-> TRUE, single_node_with_gpus |-> FALSE,
           cuda_visible_devices |-> {}]

\* one termination criterion or none, with and without verbose
Criteria ==
    {[NoArgs EXCEPT !.brackets = b] : b \in 0..MaxBrackets}
    \cup {[NoArgs EXCEPT !.total_cost = c] : c \in 1..MaxTotalCost}
    \cup {[NoArgs EXCEPT !.total_wallclock_cost = w] : w \in 1..MaxWallclock}
    \cup {[NoArgs EXCEPT !.fevals = 1]}
    \cup {NoArgs}

\* (single_node_with_gpus, the device ids of CUDA_VISIBLE_DEVICES, none when
\* the variable is not set)
GpuModes == {<<FALSE, {}>>, <<TRUE, {}>>, <<TRUE, {0, 1}>>}

RunArgs ==
    {[a EXCEPT !.verbose = v, !.save_intermediate = si,
               !.single_node_with_gpus = g[1], !.cuda_visible_devices = g[2]] :
        a \in Criteria, v \in BOOLEAN, si \in BOOLEAN, g \in GpuModes}

\* the runs that are followed: a varying objective is combined with a bracket
\* limit in the synchronous case only, an unknown ranking tag with the constant
\* objective only, verbose with a varying objective only, GPU accounting with
\* the constant objective, a known ranking tag and no clips, without verbose
\* and without a limit on the cost, the
\* objective of huge cost with a limit on the wall-clock time only, such a
\* limit and the constant objective in the synchronous case without clips,
\* save_intermediate = False with a varying objective, a limit on the cost, a
\* known ranking tag and no clips
Explored(p, a) ==
    /\ ~a.save_intermediate =>
          /\ p.f = "varying" /\ p.mo_strategy = "NSGA-II" /\ p.np_bool
          /\ p.min_clip = None
          /\ a.total_cost # None
    /\ p.f = "costly" => a.total_wallclock_cost # None
    /\ a.total_wallclock_cost # None =>
          /\ p.f \in {"constant", "costly"}
          /\ p.f = "constant" => ~UsesPool(p) /\ p.min_clip = None
          /\ p.mo_strategy = "NSGA-II" /\ p.np_bool
          /\ ~a.verbose /\ ~a.single_node_with_gpus
    /\ a.single_node_with_gpus =>
          /\ p.f = "constant" /\ p.mo_strategy = "NSGA-II" /\ p.np_bool
          /\ p.min_clip = None
          /\ ~a.verbose /\ a.total_cost = None
    /\ (p.f = "varying" /\ UsesPool(p)) => a.brackets = None
    /\ p.mo_strategy = "unknown" => p.f = "constant"
    /\ a.verbose => p.f = "varying"

Runs == {r \in RunParams \X RunArgs : Explored(r[1], r[2])}

Init ==
    /\ \E r \in Runs : params = r[1] /\ args = r[2]
    /\ max_SH_iter = ComputeMaxSHIter(params)
    /\ budgets = ComputeBudgets(params, max_SH_iter)
    /\ plan = NoPlan
    /\ pc = "loop"
    /\ iteration_counter = -1
    /\ active_brackets = <<>>
    /\ futures = <<>>
    /\ trials = <<>>
    /\ runtime = <<>>
    /\ history = <<>>
    /\ cumulated_costs = 0
    /\ pareto_trials = <<>>
    /\ retval = NotReturned
    /\ log = NoLog
    /\ now = Epoch
    /\ start = Epoch
    /\ gpu_usage = DistributeGpus(args)

Next ==
    \/ RaiseAtCheck
    \/ Stop
    \/ NoWorker
    \/ JobFails
    \/ Discard
    \/ GpuFails
    \/ Submit
    \/ Fetch
    \/ Drain
    \/ Return
    \/ RaiseAtEnd
    \/ \E i \in 1..MaxInFlight(params) : WorkerFinish(i)
    \/ Tick

Spec == Init /\ [][Next]_vars

\* run(brackets = B) with the scheduling the program has: the thread of run()
\* keeps taking its next step (lines 608-663 hold no blocking call but
\* time.sleep), and the pool finishes every job it was given. A run with a
\* bracket limit leaves the loop with no job in flight; the runs of a pool with
\* a limit on the cost are followed too, there the drain loop has jobs to wait
\* for.
BracketRuns ==
    /\ ~args.single_node_with_gpus
    /\ \/ args.brackets # None
       \/ /\ args.total_cost # None
          /\ params.n_workers = 2 /\ params.f = "constant"
          /\ params.mo_strategy = "NSGA-II" /\ params.np_bool
          /\ params.min_clip = None
          /\ ~args.verbose /\ args.save_intermediate
    /\ (params.n_workers = 1 /\ params.client) => args.brackets <= 1
    /\ params.f = "varying" =>
          params.max_budget = 2 /\ params.min_clip = None /\ params.np_bool

LiveInit == Init /\ BracketRuns

ControlStep ==
    \/ Stop
    \/ NoWorker
    \/ JobFails
    \/ Discard
    \/ Submit
    \/ Fetch
    \/ Drain
    \/ Return
    \/ RaiseAtEnd

\* the places a job in flight can have in self.futures
FutureSlots == UNION {1..MaxInFlight(r[1]) : r \in Runs}

LiveNext ==
    \/ ControlStep
    \/ \E i \in FutureSlots : WorkerFinish(i)

SpecLive ==
    /\ LiveInit
    /\ [][LiveNext]_vars
    /\ WF_vars(ControlStep)
    /\ \A i \in FutureSlots : WF_vars(WorkerFinish(i))

-----------------------------------------------------------------------------
(* The budget planner alone: MOHB.__init__ followed by calls of             *)
(* get_next_iteration                                                       *)

\* largest max_budget handed to the constructor
MaxBudget == 9
\* largest min_clip / max_clip handed to the constructor
MaxClip == 2

\* eta as a fraction: 2, 3 and 1.5
Etas == {<<2, 1>>, <<3, 1>>, <<3, 2>>}

\* "clip : int, {1, 2, 3, ..., None}" (docstring of get_next_iteration)
Clips == {None} \cup (1..MaxClip)

\* min_budget is 1 or 2, given as an int or as a float
PlannerParams ==
    {[min_budget |-> lo, max_budget |-> hi, eta_num |-> e[1], eta_den |-> e[2],
      min_integral |-> int, min_clip |-> c1, max_clip |-> c2,
      n_workers |-> 1, client |-> FALSE, mo_strategy |-> "NSGA-II",
      f |-> "constant", np_bool |-> TRUE] :
        lo \in 1..2, hi \in 1..MaxBudget, e \in Etas, int \in BOOLEAN,
        c1 \in Clips, c2 \in Clips}

PlannerInit ==
    /\ params \in PlannerParams
    /\ max_SH_iter = None
    /\ budgets = <<>>
    /\ plan = NoPlan
    /\ args = NoArgs
    /\ pc = "new"
    /\ iteration_counter = -1
    /\ active_brackets = <<>>
    /\ futures = <<>>
    /\ trials = <<>>
    /\ runtime = <<>>
    /\ history = <<>>
    /\ cumulated_costs = 0
    /\ pareto_trials = <<>>
    /\ retval = NotReturned
    /\ log = NoLog
    /\ now = None
    /\ start = None
    /\ gpu_usage = NoUsage

run_state == <<args, iteration_counter, active_brackets, futures, trials, runtime,
               history, cumulated_costs, pareto_trials, retval, log,
               gpu_usage, start, now>>

\* line 35: assert self.max_budget > self.min_budget
ConstructRaises ==
    /\ pc = "new"
    /\ ~(params.max_budget > params.min_budget)
    /\ pc' = "error"
    /\ UNCHANGED <<ctor, run_state>>

\* lines 47-62: max_SH_iter and the ladder are computed
Construct ==
    /\ pc = "new"
    /\ params.max_budget > params.min_budget
    /\ \E m \in {ComputeMaxSHIter(params)} :
          /\ max_SH_iter' = m
          /\ budgets' = ComputeBudgets(params, m)
    /\ pc' = "ready"
    /\ UNCHANGED <<params, plan, run_state>>

\* a call get_next_iteration(iteration) on the constructed optimizer
PlanIteration ==
    /\ pc = "ready"
    /\ \E iteration \in 0..max_SH_iter :
          plan' = GetNextIteration(params, max_SH_iter, budgets, iteration)
    /\ UNCHANGED <<params, max_SH_iter, budgets, pc, run_state>>

PlannerNext ==
    \/ ConstructRaises
    \/ Construct
    \/ PlanIteration

SpecPlanner == PlannerInit /\ [][PlannerNext]_vars

-----------------------------------------------------------------------------
(* The Pareto front alone: trials are archived (line 483) and                *)
(* _update_pareto is called on the archive                                  *)

\* largest archive length
MaxArchive == 4

\* fitness vectors of two objectives a trial may report
Fitnesses == {<<1, 5>>, <<5, 1>>, <<3, 3>>, <<4, 4>>, <<3, 4>>, <<1, 1>>}

ParetoInit ==
    /\ params \in {q \in PlannerParams :
                      /\ q.min_budget = 1 /\ q.max_budget = 2 /\ q.eta_num = 2
                      /\ q.min_integral
                      /\ q.min_clip = None /\ q.max_clip = None}
    /\ max_SH_iter = ComputeMaxSHIter(params)
    /\ budgets = ComputeBudgets(params, max_SH_iter)
    /\ plan = NoPlan
    /\ args = NoArgs
    /\ pc = "archive"
    /\ iteration_counter = -1
    /\ active_brackets = <<>>
    /\ futures = <<>>
    /\ trials = <<>>
    /\ runtime = <<>>
    /\ history = <<>>
    /\ cumulated_costs = 0
    /\ pareto_trials = <<>>
    /\ retval = NotReturned
    /\ log = NoLog
    /\ now = None
    /\ start = None
    /\ gpu_usage = NoUsage

\* line 483: a completed trial enters the archive
Archive ==
    /\ pc \in {"archive", "front"}
    /\ Len(trials) < MaxArchive
    /\ \E fitness \in Fitnesses :
          trials' = Append(trials, [config |-> Len(trials) + 1, status |-> "complete",
                                    fitness |-> fitness, cost |-> 1])
    /\ pc' = "archive"
    /\ UNCHANGED <<ctor, args, start, now, gpu_usage, iteration_counter, active_brackets, futures, runtime,
                   history, cumulated_costs, pareto_trials, retval, log>>

\* lines 526, 663: self.pareto_trials = self._update_pareto()
UpdateFront ==
    /\ pc = "archive"
    /\ pareto_trials' = UpdatePareto(trials)
    /\ pc' = "front"
    /\ UNCHANGED <<ctor, args, start, now, gpu_usage, iteration_counter, active_brackets, futures, trials,
                   runtime, history, cumulated_costs, retval, log>>

ParetoNext ==
    \/ Archive
    \/ UpdateFront

SpecPareto == ParetoInit /\ [][ParetoNext]_vars

-----------------------------------------------------------------------------
(* Properties *)

\* rung r of a bracket holds trials and all of them are complete
AllComplete(bracket, r) ==
    /\ bracket.trials[r] # <<>>
    /\ \A i \in 1..Len(bracket.trials[r]) : bracket.trials[r][i].status = "complete"

\* rung r of a bracket holds a trial with the given status
HasTrial(bracket, r, status) ==
    \E i \in 1..Len(bracket.trials[r]) : bracket.trials[r][i].status = status

\* C1: rung gate. In every state of run(), for every bracket, a rung above
\* the base rung holds trials (a promotion into it was computed, a job of it may
\* have been submitted) only if every trial of each lower rung of the bracket is
\* complete, and the last job request _get_next_job served for a rung above the
\* base rung was served with every lower rung of that bracket complete.
C1_RungGate ==
    /\ \A i \in 1..Len(active_brackets) :
          \A r \in 2..Len(active_brackets[i].budgets) :
             active_brackets[i].trials[r] # <<>>
                => \A q \in 1..(r - 1) : AllComplete(active_brackets[i], q)
    /\ \A i \in 1..Len(active_brackets) :
          (/\ active_brackets[i].bracket_id = log.requested.bracket_id
           /\ log.requested.rung > 1)
             => \A q \in 1..(log.requested.rung - 1) : AllComplete(active_brackets[i], q)

\* a job of the second rung of one bracket is in flight while a job of the base
\* rung of another bracket is in flight
C1_Witness ==
    \E i, k \in 1..Len(active_brackets) :
       /\ i # k
       /\ Len(active_brackets[i].budgets) > 1
       /\ HasTrial(active_brackets[i], 2, "running")
       /\ HasTrial(active_brackets[k], 1, "running")

\* C2: the number of jobs in flight (the length of self.futures) never exceeds
\* the worker count.
C2_InFlightWithinWorkers == Len(futures) <= GetWorkerCount(params)

\* the brackets the run has had so far: the active ones and the retired ones
KnownBrackets == {active_brackets[i] : i \in 1..Len(active_brackets)} \cup log.retired

\* every rung of the bracket holds trials and all of them are complete
BracketResolved(bracket) ==
    \A r \in 1..Len(bracket.budgets) : AllComplete(bracket, r)

\* C3: with brackets = B as the only criterion the main loop of run() is left
\* only when the bracket counter has reached B and every bracket with an id
\* below B exists with all its trials complete, whether or not bracket B has
\* been created.
C3_BracketsTermination ==
    (args.brackets # None /\ pc \in {"drain", "done"})
        => /\ iteration_counter >= args.brackets
           /\ \A id \in 0..(args.brackets - 1) :
                 \E bracket \in KnownBrackets :
                    bracket.bracket_id = id /\ BracketResolved(bracket)

\* a run with brackets = 2 on a pool has left the loop after the extra bracket
\* 2 had been created
C3_Witness ==
    /\ args.brackets = 2
    /\ params.client
    /\ pc = "drain"
    /\ \E bracket \in KnownBrackets : bracket.bracket_id = 2

\* run() has ended: it returned or an exception left it
Ended == pc \in {"done", "error"}

\* C4: with total_cost = C as the only criterion the loop of run() is not left
\* while the cumulated cost is below C, no job is asked for once it is at least
\* C, and run() returns a cost sequence whose sum is at least C.
C4_TotalCostTermination ==
    args.total_cost # None
        => /\ log.stopped # None => cumulated_costs >= args.total_cost
           /\ pc = "fetch" => cumulated_costs < args.total_cost
           /\ (log.stopped # None /\ Ended)
                 => /\ retval.kind = "tuple"
                    /\ SeqSum(retval.costs) >= args.total_cost

\* C5: with fevals = N as the only criterion run() on a fresh optimizer ends
\* by returning a history of at least N entries.
C5_FevalsTermination ==
    (args.fevals # None /\ Ended)
        => /\ retval.kind = "tuple"
           /\ Len(retval.history) >= args.fevals

\* C6: once the termination check has fired no job is submitted any more, run()
\* ends only with no job in flight, and it returns a cost sequence and a history
\* with one entry for every job that was submitted.
C6_NoCancellationFullDrain ==
    log.stopped # None
        => /\ log.n_submitted = log.stopped
           /\ Ended => /\ futures = <<>>
                       /\ retval.kind = "tuple"
                       /\ Len(retval.costs) = log.n_submitted
                       /\ Len(retval.history) = log.n_submitted

\* fitness vectors of a sequence of trials, as a set
FitnessSet(ts) == {ts[i].fitness : i \in 1..Len(ts)}

\* C7: the front _update_pareto computes from an archive of completed trials
\* is a subset of the archive, no member of it dominates another member, every
\* trial of the archive outside it is dominated by a member, and for the
\* fitness vectors (1,5), (5,1), (3,3), (4,4) it is (1,5), (5,1), (3,3).
C7_ParetoFront ==
    pc = "front"
        => /\ \A i \in 1..Len(pareto_trials) :
                 \E j \in 1..Len(trials) : trials[j] = pareto_trials[i]
           /\ \A i, k \in 1..Len(pareto_trials) :
                 ~Dominates(pareto_trials[i].fitness, pareto_trials[k].fitness)
           /\ \A j \in 1..Len(trials) :
                 (\A i \in 1..Len(pareto_trials) : pareto_trials[i] # trials[j])
                    => \E i \in 1..Len(pareto_trials) :
                          Dominates(pareto_trials[i].fitness, trials[j].fitness)
           /\ (Len(trials) = 4
               /\ FitnessSet(trials) = {<<1, 5>>, <<5, 1>>, <<3, 3>>, <<4, 4>>})
                 => /\ Len(pareto_trials) = 3
                    /\ FitnessSet(pareto_trials) = {<<1, 5>>, <<5, 1>>, <<3, 3>>}

\* the front of the archive (1,5), (5,1), (3,3), (4,4) has been computed
C7_Witness ==
    /\ pc = "front"
    /\ FitnessOf(trials) = << <<1, 5>>, <<5, 1>>, <<3, 3>>, <<4, 4>> >>
    /\ Len(pareto_trials) = 3

\* number of complete trials of rung r of a bracket
CompleteCount(bracket, r) ==
    Cardinality({i \in 1..Len(bracket.trials[r]) :
                    bracket.trials[r][i].status = "complete"})

\* C8: in every bracket, a rung above the base rung holds at most as many
\* (promoted) trials as the rung below it has complete trials, for the plain
\* and for the clipped rung counts.
C8_PromotionsWithinCompleted ==
    \A bracket \in KnownBrackets :
       \A r \in 2..Len(bracket.budgets) :
          bracket.trials[r] # <<>>
             => Len(bracket.trials[r]) <= CompleteCount(bracket, r - 1)

\* with the counts clipped from below, two trials were promoted from the two
\* complete trials of the base rung
C8_Witness ==
    /\ params.min_clip = 2
    /\ \E i \in 1..Len(active_brackets) :
          /\ Len(active_brackets[i].budgets) = 2
          /\ Len(active_brackets[i].trials[2]) = 2
          /\ CompleteCount(active_brackets[i], 1) = 2

\* C9: the ladder computed by the constructor, the cast of its entries
\* included, is strictly increasing and ends with max_budget.
C9_LadderIncreasing ==
    pc = "ready"
        => /\ \A j \in 1..(Len(budgets) - 1) : RatLess(budgets[j], budgets[j + 1])
           /\ RatEq(budgets[Len(budgets)], Rat(params.max_budget, 1))

\* C10: the rung counts get_next_iteration returns are non-increasing and at
\* least 1, whatever the iteration and the clips.
C10_CountsNonIncreasing ==
    (pc = "ready" /\ plan.iteration # None)
        => /\ \A j \in 1..Len(plan.ns) : plan.ns[j] >= 1
           /\ \A j \in 1..(Len(plan.ns) - 1) : plan.ns[j] >= plan.ns[j + 1]

\* a plan of at least three rungs whose last count was raised by the lower clip
C10_Witness ==
    /\ pc = "ready"
    /\ plan.iteration = 0
    /\ params.min_clip = 2
    /\ params.max_clip = None
    /\ Len(plan.ns) >= 3
    /\ plan.ns[1] > plan.ns[Len(plan.ns)]
    /\ plan.ns[Len(plan.ns)] = 2

\* s of the plan held in the variable plan
PlanS == max_SH_iter - 1 - (plan.iteration % max_SH_iter)

\* int(floor(max_SH_iter / (s + 1)) * eta ** s) for the plan held in plan
PlanFirst ==
    ((max_SH_iter \div (PlanS + 1)) * Pow(params.eta_num, PlanS))
        \div Pow(params.eta_den, PlanS)

\* the first count after the clips: both clips clamp it, a lower clip alone
\* leaves it (its upper limit is the first count itself)
PlanFirstClipped ==
    IF params.min_clip # None /\ params.max_clip # None
    THEN Min2(Max2(PlanFirst, params.min_clip), params.max_clip)
    ELSE PlanFirst

\* the rungs, the budgets and the wrap-around of the plan held in plan
PlanShape ==
    /\ Len(plan.ns) = PlanS + 1
    /\ Len(plan.budgets) = PlanS + 1
    /\ \A j \in 1..(PlanS + 1) :
          plan.budgets[j] = budgets[max_SH_iter - PlanS - 1 + j]
    /\ RatEq(plan.budgets[PlanS + 1], Rat(params.max_budget, 1))
    /\ plan.iteration = 0 => plan.budgets = budgets
    /\ \E again \in {GetNextIteration(params, max_SH_iter, budgets,
                                        plan.iteration + max_SH_iter)} :
          again.ns = plan.ns /\ again.budgets = plan.budgets

RECURSIVE SumUsage(_, _)
SumUsage(usage, ds) ==
    IF ds = {} THEN 0
    ELSE LET d == CHOOSE x \in ds : TRUE
         IN usage[d] + SumUsage(usage, ds \ {d})

\* no counter is negative and the counters add up to the jobs in flight
GpuBalanced ==
    /\ \A d \in DOMAIN gpu_usage : gpu_usage[d] >= 0
    /\ SumUsage(gpu_usage, DOMAIN gpu_usage) = Len(futures)

\* the step submits a job: one device whose counter was minimal has one job
\* more, and the job carries that device
GpuSubmission ==
    \E d \in DOMAIN gpu_usage :
       /\ \A j \in DOMAIN gpu_usage : gpu_usage[d] <= gpu_usage[j]
       /\ gpu_usage' = [gpu_usage EXCEPT ![d] = @ + 1]
       /\ "device_id" \in DOMAIN futures'[Len(futures')]
       /\ futures'[Len(futures')].device_id = d

\* the step collects results: every device gets back the jobs collected from it
GpuCollection ==
    \A d \in DOMAIN gpu_usage :
       gpu_usage'[d] = gpu_usage[d]
          - Cardinality({i \in 1..Len(futures) :
                           /\ futures[i].done
                           /\ "device_id" \in DOMAIN futures[i]
                           /\ futures[i].device_id = d})

GpuStep ==
    /\ GpuBalanced /\ GpuBalanced'
    /\ IF log'.n_submitted = log.n_submitted + 1 THEN GpuSubmission
       ELSE IF Len(trials') > Len(trials) THEN GpuCollection
       ELSE gpu_usage' = gpu_usage

C13_UnknownTagNeverSubmits ==
    params.mo_strategy \notin KnownAlgorithms
        => /\ log.n_submitted = 0
           /\ futures = <<>>
           /\ trials = <<>>

\* run() was called without fevals, brackets, total_cost and total_wallclock_cost
NoCriterion ==
    /\ args.fevals = None
    /\ args.brackets = None
    /\ args.total_cost = None
    /\ args.total_wallclock_cost = None

\* C14: run() without a termination criterion fails before a bracket is created
\* or a job is submitted; the archive, the active brackets and the bracket
\* counter stay as they were.
C14_NoCriterionFails ==
    NoCriterion
        => /\ pc \in {"loop", "error"}
           /\ pc = "error" => retval = Caught
           /\ iteration_counter = -1
           /\ active_brackets = <<>>
           /\ trials = <<>>
           /\ futures = <<>>
           /\ log.n_submitted = 0
           /\ log.requested = NoRequest

\* the run without a criterion has failed
C14_Witness ==
    /\ NoCriterion
    /\ pc = "error"
    /\ retval = Caught
    /\ iteration_counter = -1

OnlyWallclock ==
    /\ args.total_wallclock_cost # None
    /\ args.fevals = None
    /\ args.brackets = None
    /\ args.total_cost = None

\* C16: with total_wallclock_cost = W as the only criterion the loop is not left
\* at a check at which less than W has elapsed since the start, and no job is
\* submitted after a check at which W or more has elapsed.
C16_WallclockTermination ==
    [][OnlyWallclock =>
          /\ (pc = "loop" /\ pc' = "drain")
                => now - start >= args.total_wallclock_cost
          /\ (pc = "loop" /\ now - start >= args.total_wallclock_cost)
                => log'.n_submitted = log.n_submitted
          /\ pc \in {"drain", "done", "error"}
                => log'.n_submitted = log.n_submitted]_vars

\* no trial of the bracket was registered: every trial it holds is pending
NeverRegistered(bracket) ==
    \A r \in 1..Len(bracket.trials) :
       \A i \in 1..Len(bracket.trials[r]) : bracket.trials[r][i].status = "pending"

\* C17: with brackets = B every submitted job belongs to a bracket with an id
\* below B, a suggestion from the extra bracket B is neither submitted nor
\* registered, and the bracket counter does not exceed B.
C17_ExtraBracketDiscarded ==
    args.brackets # None
        => /\ \A job \in log.submitted : job[1] < args.brackets
           /\ \A i \in 1..Len(futures) : futures[i].bracket_id < args.brackets
           /\ \A bracket \in KnownBrackets :
                 bracket.bracket_id >= args.brackets => NeverRegistered(bracket)
           /\ iteration_counter <= args.brackets

\* the extra bracket of a run with brackets = 1 holds a suggested trial while a
\* job of bracket 0 is still in flight
C17_Witness ==
    /\ args.brackets = 1
    /\ iteration_counter = 1
    /\ pc = "fetch"
    /\ log.requested.bracket_id = 1
    /\ \E i \in 1..Len(active_brackets) :
          /\ active_brackets[i].bracket_id = 1
          /\ HasTrial(active_brackets[i], 1, "pending")
    /\ \E i \in 1..Len(futures) : futures[i].bracket_id = 0
    /\ log.n_submitted >= 2

\* one step of a trial's status: it stays, or moves from pending to running, or
\* from running to complete
StatusStep(before, after) ==
    \/ after = before
    \/ before = "pending" /\ after = "running"
    \/ before = "running" /\ after = "complete"

\* the trials of a bracket before and after a step: a trial that was there is
\* still there and has made at most one step, a trial that is new is pending or
\* (submitted by the same call) running
TrialsStep(before, after) ==
    /\ Len(after) = Len(before)
    /\ \A r \in 1..Len(before) :
          /\ Len(after[r]) >= Len(before[r])
          /\ \A k \in 1..Len(before[r]) :
                StatusStep(before[r][k].status, after[r][k].status)
          /\ \A k \in (Len(before[r]) + 1)..Len(after[r]) :
                after[r][k].status \in {"pending", "running"}

\* C18: the status of a trial only moves from pending to running to complete,
\* never back and never past a status, with a pool and without.
C18_StatusForward ==
    [][\A j \in 1..Len(active_brackets') :
          IF \E i \in 1..Len(active_brackets) :
                active_brackets[i].bracket_id = active_brackets'[j].bracket_id
          THEN \A i \in 1..Len(active_brackets) :
                  active_brackets[i].bracket_id = active_brackets'[j].bracket_id
                     => TrialsStep(active_brackets[i].trials,
                                   active_brackets'[j].trials)
          ELSE TrialsStep([r \in 1..Len(active_brackets'[j].trials) |-> <<>>],
                          active_brackets'[j].trials)]_vars

\* a rung of a bracket with a complete and a running trial, and a bracket with
\* a pending trial
C18_Witness ==
    /\ \E i \in 1..Len(active_brackets) :
          /\ HasTrial(active_brackets[i], 1, "complete")
          /\ HasTrial(active_brackets[i], 1, "running")
    /\ \E i \in 1..Len(active_brackets) :
          HasTrial(active_brackets[i], 1, "pending")

\* the jobs submitted for rung r of the bracket with the id
SubmittedOf(id, r) == {job \in log.submitted : job[1] = id /\ job[2] = r}

\* C19: a trial of a rung is submitted at most once, and the jobs submitted for
\* a rung are never more than the target count of the rung.
C19_SubmittedOnce ==
    /\ Cardinality(log.submitted) = log.n_submitted
    /\ \A bracket \in KnownBrackets :
          \A r \in 1..Len(bracket.n_configs) :
             /\ Cardinality(SubmittedOf(bracket.bracket_id, r)) <= bracket.n_configs[r]
             /\ \A job \in SubmittedOf(bracket.bracket_id, r) :
                   /\ job[3] \in 1..Len(bracket.trials[r])
                   /\ bracket.trials[r][job[3]].status \in {"running", "complete"}
             /\ Cardinality(SubmittedOf(bracket.bracket_id, r))
                   = Cardinality({k \in 1..Len(bracket.trials[r]) :
                                    bracket.trials[r][k].status # "pending"})

\* both rungs of a bracket were submitted in full: two jobs of the base rung and
\* the one job of the rung above
C19_Witness ==
    \E bracket \in KnownBrackets :
       /\ bracket.n_configs = <<2, 1>>
       /\ Cardinality(SubmittedOf(bracket.bracket_id, 1)) = 2
       /\ Cardinality(SubmittedOf(bracket.bracket_id, 2)) = 1

\* ids of the active brackets that are pending and do not wait for a lower rung
EligibleIds ==
    {active_brackets[i].bracket_id : i \in
        {j \in 1..Len(active_brackets) :
            /\ ~previous_rung_waits(active_brackets[j])
            /\ is_pending(active_brackets[j])}}

\* the active brackets are none, or all done, or none of them is eligible
NoBracketToServe ==
    \/ Len(active_brackets) = 0
    \/ \A i \in 1..Len(active_brackets) : is_bracket_done(active_brackets[i])
    \/ EligibleIds = {}

\* C20: _get_next_job starts a new bracket only when there is no active
\* bracket, or all of them are done, or none is eligible; otherwise it takes the
\* job from the eligible bracket with the smallest id and starts none.
C20_BracketSelection ==
    [][(AsksForJob /\ pc' \in {"fetch", "error"})
          => IF NoBracketToServe
             THEN /\ iteration_counter' = iteration_counter + 1
                  /\ log'.requested.bracket_id = iteration_counter'
                  /\ Len(active_brackets') = Len(active_brackets) + 1
                  /\ EligibleIds = {}
             ELSE /\ iteration_counter' = iteration_counter
                  /\ Len(active_brackets') = Len(active_brackets)
                  /\ log'.requested.bracket_id \in EligibleIds
                  /\ \A id \in EligibleIds : log'.requested.bracket_id <= id]_vars

\* the rung above the base rung of bracket 0 was just served while the younger
\* bracket 1 is eligible as well
C20_Witness ==
    /\ pc = "fetch"
    /\ log.requested = [bracket_id |-> 0, rung |-> 2]
    /\ \E i \in 1..Len(active_brackets) :
          /\ active_brackets[i].bracket_id = 1
          /\ ~previous_rung_waits(active_brackets[i])
          /\ is_pending(active_brackets[i])

\* n_workers = 1 and no client: the synchronous case
Synchronous == params.n_workers = 1 /\ ~params.client

\* the rungs of the bracket were evaluated in order: up to one rung all
\* complete, in that rung the complete trials before the pending ones, above
\* it nothing
RungsInOrder(bracket) ==
    \E k \in 1..Len(bracket.trials) :
       /\ \A r \in 1..(k - 1) : AllComplete(bracket, r)
       /\ \A r \in (k + 1)..Len(bracket.trials) : bracket.trials[r] = <<>>
       /\ \E n \in 0..Len(bracket.trials[k]) :
             \A i \in 1..Len(bracket.trials[k]) :
                bracket.trials[k][i].status = IF i <= n THEN "complete" ELSE "pending"

\* C21: in the synchronous case a submitted job is evaluated inline and its
\* result is in its bracket and in the archive before the tick ends, so a tick
\* starts with no job in flight and with the rungs of every bracket evaluated
\* in order.
C21_Synchronous ==
    Synchronous
        => /\ Len(futures) <= 1
           /\ \A i \in 1..Len(futures) :
                 futures[i].done /\ futures[i].fitness # NoFitness
           /\ pc = "fetch" \/ futures = <<>>
           /\ pc \in {"loop", "drain", "done"}
                 => /\ Len(trials) = log.n_submitted
                    /\ \A bracket \in KnownBrackets : RungsInOrder(bracket)

\* a tick starts after the three jobs of a bracket with the rung counts
\* <<2, 1>> were evaluated inline
C21_Witness ==
    /\ Synchronous
    /\ pc = "loop"
    /\ futures = <<>>
    /\ log.n_submitted = 3
    /\ Len(trials) = 3
    /\ \E bracket \in KnownBrackets :
          /\ bracket.n_configs = <<2, 1>>
          /\ AllComplete(bracket, 1)
          /\ AllComplete(bracket, 2)

\* C22: run(brackets = B) returns in the end, whatever the worker count (and
\* so does the run of a pool with a limit on the cost): every
\* tick of the loop collects the finished jobs, also when no worker is free or
\* the suggested job is discarded, so the loop cannot go on forever with
\* brackets that are never completed. The run comes to its return statement
\* unless verbose is set or the strategy tag is unknown, and then it ends with
\* the exception @logger.catch swallows.
C22_Progress ==
    <>(/\ Ended
       /\ (~args.verbose /\ params.mo_strategy \in KnownAlgorithms) => pc = "done")

\* a tick that discarded its job has collected results, and the run returned
C22_Witness ==
    /\ UsesPool(params)
    /\ args.brackets = 1
    /\ pc = "done"
    /\ Len(trials) >= 2
    /\ log.requested.bracket_id = 1

\* the brackets of the active list that carry the id of a job
Owners(ab, run_info) == {j \in 1..Len(ab) : ab[j].bracket_id = run_info.bracket_id}

\* every job in flight has exactly one active bracket with its id, and there
\* its trial is running
OwnersActive ==
    \A i \in 1..Len(futures) :
       /\ Cardinality(Owners(active_brackets, futures[i])) = 1
       /\ \A j \in Owners(active_brackets, futures[i]) :
             active_brackets[j].trials[RungOf(active_brackets[j], futures[i].budget)]
                                     [futures[i].trial].status = "running"

\* the step collects results: each of them is in its bracket afterwards, be
\* the bracket still active or retired by the clean-up of the same tick
CompletedInOwner ==
    \A i \in 1..Len(futures) :
       futures[i].done =>
          \E bracket \in KnownBrackets' :
             /\ bracket.bracket_id = futures[i].bracket_id
             /\ bracket.trials[RungOf(bracket, futures[i].budget)][futures[i].trial]
                   = [config |-> futures[i].config, status |-> "complete",
                      fitness |-> futures[i].fitness, cost |-> futures[i].cost]

\* the brackets the step retires have no job in flight after it
RetiredIdle ==
    \A bracket \in log'.retired \ log.retired :
       \A i \in 1..Len(futures') : futures'[i].bracket_id # bracket.bracket_id

\* C23: a result is collected while its bracket is in the active list, where
\* complete_job records it in that one bracket, and no bracket is retired with
\* a job in flight, in the loop and in the drain after it.
C23_OwnerActive ==
    [][/\ OwnersActive /\ OwnersActive'
       /\ Len(trials') > Len(trials) => CompletedInOwner
       /\ RetiredIdle]_vars

\* the results of a bracket were collected and the bracket was retired while
\* a job of the next bracket is in flight
C23_Witness ==
    /\ UsesPool(params)
    /\ pc = "loop"
    /\ log.retired # {}
    /\ Len(trials) >= 3
    /\ Len(active_brackets) = 1
    /\ futures # <<>>

\* the archive, the cost sequence and the history are equally long and the
\* cumulated cost is the sum of the cost sequence
TrackersAligned ==
    /\ Len(trials) = Len(runtime)
    /\ Len(runtime) = Len(history)
    /\ cumulated_costs = SeqSum(runtime)

\* the results the step collects: the jobs that leave self.futures
CollectedBy == IF Len(futures') < Len(futures) THEN Len(futures) - Len(futures') ELSE 0

\* C24: in every state of run() the archive, the cost sequence and the
\* history have the same length, the number of results collected so far, the
\* cumulated cost is the sum of the cost sequence, and a step changes the three
\* sequences only by appending one entry for each result it collects.
C24_TrackersAppendOnly ==
    [][/\ TrackersAligned /\ TrackersAligned'
       /\ Len(trials') = Len(trials) + CollectedBy
       /\ SubSeq(trials', 1, Len(trials)) = trials
       /\ SubSeq(runtime', 1, Len(runtime)) = runtime
       /\ SubSeq(history', 1, Len(history)) = history
       /\ \A i \in 1..Len(history') : history'[i].cost = runtime'[i]]_vars

\* two results of different cost were collected from a pool, a third job is
\* in flight
C24_Witness ==
    /\ UsesPool(params)
    /\ Len(trials) = 2
    /\ runtime[1] # runtime[2]
    /\ cumulated_costs = runtime[1] + runtime[2]
    /\ futures # <<>>

\* the trial of rung r + 1 is a new record for a complete trial of rung r
FreshFrom(trial, lower) ==
    /\ trial.status \in {"pending", "running"}
    /\ trial.fitness = NoFitness
    /\ trial.cost = None
    /\ \E i \in 1..Len(lower) :
          lower[i].status = "complete" /\ lower[i].config = trial.config

\* what a step does to rungs r and r + 1 of a bracket, b before and b2 after
PromotionStep(b, b2, r) ==
    /\ (b.trials[r + 1] = <<>> /\ b2.trials[r + 1] # <<>>)
          => \A i \in 1..Len(b2.trials[r + 1]) :
                FreshFrom(b2.trials[r + 1][i], b.trials[r])
    /\ b2.trials[r + 1] # b.trials[r + 1] => b2.trials[r] = b.trials[r]
    /\ b2.trials[r] # b.trials[r] => b2.trials[r + 1] = b.trials[r + 1]

\* C25: the trials a promotion puts into rung k + 1 are new pending trials
\* with the configurations of complete trials of rung k, and a step that
\* registers or completes a trial of one of the two rungs leaves the trials of
\* the other as they were.
C25_PromotionCopies ==
    [][\A i \in 1..Len(active_brackets) :
          \A j \in 1..Len(active_brackets') :
             active_brackets[i].bracket_id = active_brackets'[j].bracket_id
                => \A r \in 1..(Len(active_brackets[i].trials) - 1) :
                      PromotionStep(active_brackets[i], active_brackets'[j], r)]_vars

\* a promoted trial was completed with a fitness of its own: the trial of
\* the rung below with the same configuration kept the fitness it had
C25_Witness ==
    \E bracket \in KnownBrackets :
       /\ Len(bracket.trials) >= 2
       /\ \E i \in 1..Len(bracket.trials[2]) :
          \E j \in 1..Len(bracket.trials[1]) :
             /\ bracket.trials[2][i].status = "complete"
             /\ bracket.trials[1][j].status = "complete"
             /\ bracket.trials[1][j].config = bracket.trials[2][i].config
             /\ bracket.trials[1][j].fitness # bracket.trials[2][i].fitness

\* the ids of the brackets created so far, active or retired
KnownIds == {bracket.bracket_id : bracket \in KnownBrackets}

\* the brackets created so far are numbered 0 .. iteration_counter, one
\* bracket for each number, the active ones in the order of their numbers
BracketsNumbered ==
    /\ KnownIds = 0..iteration_counter
    /\ \A b1, b2 \in KnownBrackets : b1.bracket_id = b2.bracket_id => b1 = b2
    /\ \A i, j \in 1..Len(active_brackets) :
          i < j => active_brackets[i].bracket_id < active_brackets[j].bracket_id

\* the bracket has the rung counts and budgets get_next_iteration gives for
\* its id
GeometryOfId(bracket) ==
    \E g \in {GetNextIteration(params, max_SH_iter, budgets, bracket.bracket_id)} :
       bracket.n_configs = g.ns /\ bracket.budgets = g.budgets

\* the step creates a bracket: it is the last of the active list, its id is
\* the counter raised by one, its geometry that of its id
BracketCreated ==
    /\ active_brackets' # <<>>
    /\ active_brackets'[Len(active_brackets')].bracket_id = iteration_counter + 1
    /\ GeometryOfId(active_brackets'[Len(active_brackets')])
    /\ KnownIds' = KnownIds \cup {iteration_counter + 1}

\* the brackets that were there before the step keep their geometry
GeometryKept ==
    \A b2 \in KnownBrackets' :
       b2.bracket_id <= iteration_counter
          => \E b1 \in KnownBrackets :
                /\ b1.bracket_id = b2.bracket_id
                /\ b1.n_configs = b2.n_configs
                /\ b1.budgets = b2.budgets

\* C26: brackets get the ids 0, 1, 2, ... in the order they are created: a
\* step creates at most one bracket, its id is the id of the bracket created
\* before it plus one, no two brackets, active or retired, have the same id,
\* and bracket i is created with the geometry get_next_iteration(i) and keeps
\* it.
C26_BracketIds ==
    [][/\ BracketsNumbered'
       /\ iteration_counter' \in {iteration_counter, iteration_counter + 1}
       /\ iteration_counter' = iteration_counter + 1 => BracketCreated
       /\ GeometryKept]_vars

\* bracket 2 was created after bracket 0 was retired, bracket 1 is active
C26_Witness ==
    /\ iteration_counter = 2
    /\ \E bracket \in log.retired : bracket.bracket_id = 0
    /\ Len(active_brackets) = 2
    /\ active_brackets[1].bracket_id = 1
    /\ active_brackets[2].bracket_id = 2
    /\ active_brackets[2].n_configs # active_brackets[1].n_configs
    /\ GeometryOfId(active_brackets[1])
    /\ GeometryOfId(active_brackets[2])

\* C27: the stored Pareto front is the non-dominated part of the whole
\* archive at the end of every tick of the loop that collected results and when
\* run() returns, whatever save_intermediate and verbose are.
C27_FrontCurrent ==
    [][/\ (pc = "fetch" /\ pc' = "loop" /\ Len(trials') > Len(trials))
             => pareto_trials' = UpdatePareto(trials')
       /\ pc' = "done" => pareto_trials' = UpdatePareto(trials')]_vars

====
